---- MODULE Spec2Model ----
(***************************************************************************)
(* Model of parallel_inverse_aggregate.py: the spatial partitioning and    *)
(* work distribution pipeline (group_by, compute_linearized_bin_coords,    *)
(* extract_subproblems, distribute_subproblems) and the entry point        *)
(* mapped_distance_matrix.                                                 *)
(*                                                                         *)
(* A behaviour is one call of one function of the module: the arguments    *)
(* are chosen in the initial state and the call is one step.               *)
(*                                                                         *)
(* Two functions read names that neither they nor the module define        *)
(* (bin_coords at line 83, samples2 at line 327).  Such a read is a lookup *)
(* in the module namespace: module_globals holds the names that namespace  *)
(* binds.  In the module as written it is empty and the read raises        *)
(* NameError; a state in which the name is bound to the array the caller   *)
(* works on shows what the rest of the function computes.                  *)
(*                                                                         *)
(* Arrays are sequences.  Point indexes keep the source's numbering        *)
(* 0..len(pts)-1; positions into a sequence are 1-based.  Positions and    *)
(* cell sizes are integers (a position is a multiple of a common unit), so *)
(* np.floor_divide is integer floor division.                              *)
(***************************************************************************)
EXTENDS Integers, Sequences, FiniteSets, TLC

VARIABLES
    call,            \* the function of the module that is invoked
    args,            \* its arguments
    module_globals,  \* the free names the module namespace binds
    pc,              \* "call", then "returned" or "raised"
    bin_coords,      \* distribute_subproblems' local after line 181
    scattered,       \* number of client.scatter calls made
    dispatched,      \* the subproblems handed to client.map, in order
    ret              \* the value returned, or the exception raised

vars == <<call, args, module_globals, pc, bin_coords, scattered, dispatched, ret>>

(***************************************************************************)
(* Bounds of the model.                                                    *)
(***************************************************************************)
MaxLen == 3      \* rows of the array given to group_by
MaxKey == 2      \* keys of group_by are 0..MaxKey
MaxVal == 1      \* values of group_by are 0..MaxVal
MaxIdx == 3      \* extract_subproblems: indexes are 0..MaxIdx-1
MaxBins == 2     \* extract_subproblems: number of bins
MaxK == 3        \* n_per_subgroup / pts_per_future is -1 or 1..MaxK
MaxAxes == 3      \* compute_linearized_bin_coords: number of axes
MaxBinsPerAxis == 2  \* compute_linearized_bin_coords: bins on an axis
MaxCoords == 2    \* compute_linearized_bin_coords: rows of bins_coords
MaxDim == 2       \* distribute_subproblems: dimensions of the space
MaxCellSize == 1  \* cell sizes are 1..MaxCellSize
MaxCells == 2     \* cell counts and bin sizes are 1..MaxCells
MaxPts == 2       \* number of non-uniform points
MaxPos == 4       \* a coordinate of a point is -MaxNeg..MaxPos
MaxNeg == 1

(***************************************************************************)
(* Sequences and arrays.                                                   *)
(***************************************************************************)
Range(s) == {s[i] : i \in DOMAIN s}

Min(a, b) == IF a <= b THEN a ELSE b

Max(a, b) == IF a >= b THEN a ELSE b

\* All sequences over S of length lo..hi.
SeqsOf(S, lo, hi) == UNION {[1..n -> S] : n \in lo..hi}

\* s[from..to) with 0-based bounds, as the slice s[from:to].
Slice(s, from, to) == [i \in 1..(to - from) |-> s[from + i]]

RECURSIVE SumSeq(_)
SumSeq(s) == IF s = <<>> THEN 0 ELSE s[1] + SumSeq(Tail(s))

RECURSIVE Concat(_)
Concat(ss) == IF ss = <<>> THEN <<>> ELSE ss[1] \o Concat(Tail(ss))

RECURSIVE SortedSeq(_)
SortedSeq(S) ==
    IF S = {} THEN <<>>
    ELSE LET m == CHOOSE x \in S : \A y \in S : x <= y
         IN <<m>> \o SortedSeq(S \ {m})

\* Number of positions of s that hold v.
Count(s, v) == Cardinality({i \in DOMAIN s : s[i] = v})

\* s[1:]
Rest(s) == IF s = <<>> THEN <<>> ELSE Tail(s)

\* The outcome of evaluating an expression or of a call.
Return(v) == [kind |-> "return", value |-> v]

Raise(name) == [kind |-> "raise", exception |-> name]

NotCalled == [kind |-> "none"]

(***************************************************************************)
(* group_by (lines 6-41).                                                  *)
(***************************************************************************)
\* a[:, 0].argsort(): the default sort kind is not stable, so any order of
\* the rows that sorts the keys is a possible result.
ArgSorts(keys) ==
    {p \in [DOMAIN keys -> DOMAIN keys] :
        /\ \A i, j \in DOMAIN keys : i # j => p[i] # p[j]
        /\ \A i, j \in DOMAIN keys : i < j => keys[p[i]] <= keys[p[j]]}

\* np.unique(keys, return_index=True)[1]: the 0-based position of the first
\* occurrence of every distinct key, in ascending key order.
unique_index(keys) ==
    LET firstOf(k) == CHOOSE i \in DOMAIN keys :
                         /\ keys[i] = k
                         /\ \A j \in DOMAIN keys : keys[j] = k => i <= j
        ks == SortedSeq(Range(keys))
    IN [n \in DOMAIN ks |-> firstOf(ks[n]) - 1]

\* np.split(ary, indices): div_points = [0] + indices + [len(ary)], one
\* sub-array per pair of consecutive division points.
split(ary, indices) ==
    LET div_points == <<0>> \o indices \o <<Len(ary)>>
    IN [i \in 1..(Len(indices) + 1) |-> Slice(ary, div_points[i], div_points[i + 1])]

\* a is a sequence of rows <<key, value>>; order is the argsort result.
group_by(a, order) ==
    LET sorted == [i \in DOMAIN a |-> a[order[i]]]
        keys == [i \in DOMAIN a |-> sorted[i][1]]
        values == [i \in DOMAIN a |-> sorted[i][2]]
    IN split(values, Rest(unique_index(keys)))

(***************************************************************************)
(* extract_subproblems (lines 86-118).                                     *)
(***************************************************************************)
\* np.ceil(len(arr) / n) for n >= 1.
ceil_div(len, n) == (len + n - 1) \div n

\* np.array_split(ary, Nsections): raises for Nsections <= 0; the first
\* len % Nsections sections get one element more than the others.
array_split(ary, Nsections) ==
    IF Nsections <= 0 THEN Raise("ValueError")
    ELSE LET Neach == Len(ary) \div Nsections
             extras == Len(ary) % Nsections
             start(i) == (i - 1) * Neach + Min(i - 1, extras)
         IN Return([i \in 1..Nsections |-> Slice(ary, start(i), start(i + 1))])

\* A faulty variant of extract_subproblems, to test that C8 depends on it:
\* the number of sections computed as len // n + 1.
extract_subproblems_floor(indexes, n_per_subgroup) ==
    IF n_per_subgroup # -1
    THEN [b \in DOMAIN indexes |->
            array_split(indexes[b], (Len(indexes[b]) \div n_per_subgroup) + 1)]
    ELSE [b \in DOMAIN indexes |-> Return(<<indexes[b]>>)]

\* The map object returned: one entry per bin, the outcome of evaluating the
\* lambda on that bin when the map is iterated (the sequence of the bin's
\* subproblems, or the exception raised).
extract_subproblems(indexes, n_per_subgroup) ==
    IF n_per_subgroup # -1
    THEN [b \in DOMAIN indexes |->
            array_split(indexes[b], ceil_div(Len(indexes[b]), n_per_subgroup))]
    ELSE [b \in DOMAIN indexes |-> Return(<<indexes[b]>>)]

(***************************************************************************)
(* Calls of the pure functions.                                            *)
(***************************************************************************)
NoLocals ==
    /\ bin_coords = <<>>
    /\ scattered = 0
    /\ dispatched = <<>>
    /\ ret = NotCalled

PtsPerFuture == {-1} \cup (1..MaxK)

InitGroupBy ==
    /\ call = "group_by"
    /\ args \in [a : SeqsOf((0..MaxKey) \X (0..MaxVal), 0, MaxLen)]
    /\ module_globals = {}
    /\ pc = "call"
    /\ NoLocals

GroupBy ==
    /\ call = "group_by"
    /\ pc = "call"
    /\ \E order \in ArgSorts([i \in DOMAIN args.a |-> args.a[i][1]]) :
           ret' = Return(group_by(args.a, order))
    /\ pc' = "returned"
    /\ UNCHANGED <<call, args, module_globals, bin_coords, scattered, dispatched>>

\* The index lists of bins: non-empty, without repetition.
BinLists ==
    {s \in SeqsOf(0..(MaxIdx - 1), 1, MaxIdx) :
        \A i, j \in DOMAIN s : i # j => s[i] # s[j]}

InitExtract ==
    /\ call = "extract_subproblems"
    /\ args \in [indexes : {s \in SeqsOf(BinLists, 1, MaxBins) :
                               \A i, j \in DOMAIN s :
                                   i # j => Range(s[i]) \cap Range(s[j]) = {}},
                 n_per_subgroup : PtsPerFuture]
    /\ module_globals = {}
    /\ pc = "call"
    /\ NoLocals

ExtractSubproblems ==
    /\ call = "extract_subproblems"
    /\ pc = "call"
    /\ ret' = Return(extract_subproblems(args.indexes, args.n_per_subgroup))
    /\ pc' = "returned"
    /\ UNCHANGED <<call, args, module_globals, bin_coords, scattered, dispatched>>

(***************************************************************************)
(* compute_linearized_bin_coords (lines 44-83).                            *)
(***************************************************************************)
\* Lines 80-81: ones_like(bins_per_axis), then [:-1] = bins_per_axis[1:].
shifted_nbins_per_axis(bins_per_axis) ==
    [i \in DOMAIN bins_per_axis |->
        IF i < Len(bins_per_axis) THEN bins_per_axis[i + 1] ELSE 1]

\* np.dot of a row with the column vector shifted[:, None].
dot(row, column) == SumSeq([i \in DOMAIN row |-> row[i] * column[i]])

\* The parameter is named bins_coords (line 44) and line 83 reads bin_coords,
\* a free name looked up in the module namespace: NameError unless the
\* namespace binds it, and then the coordinate array it denotes.  np.dot needs
\* as many columns as bins_per_axis has entries; the result has shape (M, 1).
compute_linearized_bin_coords(bins_per_axis, bins_coords, globals) ==
    IF "bin_coords" \notin globals THEN Raise("NameError")
    ELSE IF \E i \in DOMAIN bins_coords : Len(bins_coords[i]) # Len(bins_per_axis)
    THEN Raise("ValueError")
    ELSE Return([i \in DOMAIN bins_coords |->
                    <<dot(bins_coords[i], shifted_nbins_per_axis(bins_per_axis))>>])

(***************************************************************************)
(* distribute_subproblems (lines 121-220).                                 *)
(***************************************************************************)
\* Integer // and np.floor_divide: rounds towards minus infinity; numpy
\* yields 0 (with a warning) for a zero divisor of an integer array.
floor_divide(a, b) ==
    IF b = 0 THEN 0
    ELSE IF b > 0 THEN a \div b
    ELSE (0 - a) \div (0 - b)

\* Element j of a row or vector broadcast to a wider shape.
At(v, j) == IF Len(v) = 1 THEN v[1] ELSE v[j]

\* Whether numpy broadcasts rows of width d with a vector of length n.
Broadcasts(d, n) == d = n \/ d = 1 \/ n = 1

\* The width of the rows of a 2-D array; an empty one has the width given.
Width(array, n) == IF array = <<>> THEN n ELSE Len(array[1])

\* The stable order of the keys refined by tie, a permutation of the rows:
\* as tie ranges over the permutations, every result argsort may give.
argsort(keys, tie) ==
    CHOOSE p \in ArgSorts(keys) :
        \A i, j \in DOMAIN keys :
            (i < j /\ keys[p[i]] = keys[p[j]]) => tie[p[i]] < tie[p[j]]

Perms(n) == {p \in [1..n -> 1..n] : \A i, j \in 1..n : i # j => p[i] # p[j]}

\* Lines 173-181: the bin coordinates of the points, clipped from above only,
\* at uniform_grid_cell_count - 1 (np.clip with a_min = None).
clipped_bin_coords(a) ==
    LET n == Len(a.uniform_grid_cell_count)
        w == Max(Width(a.pts, n), n)
    IN [i \in DOMAIN a.pts |->
          [j \in 1..w |->
              Min(floor_divide(At(a.pts[i], j),
                               At(a.uniform_grid_cell_size, j) * At(a.bins_size, j)),
                  At(a.uniform_grid_cell_count, j) - 1)]]

\* Lines 207-213, run by the future of one subproblem: fancy indexing raises
\* IndexError for bin_content[0] of an empty subproblem and for an index past
\* the end of weights.
bin_content_tuple(bin_content, pts, coords, weights) ==
    IF bin_content = <<>> \/ \E k \in DOMAIN bin_content : bin_content[k] >= Len(weights)
    THEN Raise("IndexError")
    ELSE Return([pts |-> [k \in DOMAIN bin_content |-> pts[bin_content[k] + 1]],
                 bin |-> coords[bin_content[1] + 1],
                 idx |-> bin_content,
                 weights |-> [k \in DOMAIN bin_content |-> weights[bin_content[k] + 1]]])

\* What a call leaves behind: the value returned or the exception raised,
\* the local bin_coords, and the calls made on the client.
Effects(r, coords, nscatter, submitted) ==
    [ret |-> r, bin_coords |-> coords, scattered |-> nscatter, dispatched |-> submitted]

\* The whole of distribute_subproblems; tie settles the order argsort gives
\* to rows with equal keys.
distribute_subproblems(a, globals, tie) ==
    LET n == Len(a.uniform_grid_cell_count)
        bins_per_axis == [j \in 1..n |->
            floor_divide(a.uniform_grid_cell_count[j], a.bins_size[j])]
    IN IF ~Broadcasts(Width(a.pts, n), n)
       THEN Effects(Raise("ValueError"), <<>>, 0, <<>>)
       ELSE
       LET coords == clipped_bin_coords(a)
           linearized_bin_coords ==
               compute_linearized_bin_coords(bins_per_axis, coords, globals)
       IN IF linearized_bin_coords.kind = "raise"
          THEN Effects(linearized_bin_coords, coords, 0, <<>>)
          ELSE
          LET aug_linearized_bin_coords ==
                  [i \in DOMAIN a.pts |-> <<linearized_bin_coords.value[i][1], i - 1>>]
              keys == [i \in DOMAIN a.pts |-> aug_linearized_bin_coords[i][1]]
              indexes_inside_bins ==
                  group_by(aug_linearized_bin_coords, argsort(keys, tie))
              subproblems == extract_subproblems(indexes_inside_bins, a.pts_per_future)
          IN \* lines 204-205: two scatter calls; lines 215-220: client.map
             \* iterates the generator before it submits anything
             IF \E b \in DOMAIN subproblems : subproblems[b].kind = "raise"
             THEN Effects(Raise("ValueError"), coords, 2, <<>>)
             ELSE
             LET subgroups == Concat([b \in DOMAIN subproblems |-> subproblems[b].value])
             IN Effects(Return([k \in DOMAIN subgroups |->
                                   bin_content_tuple(subgroups[k], a.pts, coords, a.weights)]),
                        coords, 2, subgroups)

Apply(r) ==
    /\ ret' = r.ret
    /\ bin_coords' = r.bin_coords
    /\ scattered' = r.scattered
    /\ dispatched' = r.dispatched
    /\ pc' = IF r.ret.kind = "raise" THEN "raised" ELSE "returned"
    /\ UNCHANGED <<call, args, module_globals>>

\* Vectors of length n over S.
Vectors(n, S) == [1..n -> S]

Positions == (0 - MaxNeg)..MaxPos

\* Well-formed geometry: positive sizes and counts, at least one bin per axis.
InitDistribute ==
    /\ call = "distribute_subproblems"
    /\ \E n \in 1..MaxDim :
         args \in {a \in [uniform_grid_cell_size : Vectors(n, 1..MaxCellSize),
                          uniform_grid_cell_count : Vectors(n, 1..MaxCells),
                          bins_size : Vectors(n, 1..MaxCells),
                          pts : SeqsOf(Vectors(n, Positions), 0, MaxPts),
                          weights : SeqsOf({1}, 0, MaxPts),
                          pts_per_future : PtsPerFuture] :
                     /\ \A j \in 1..n : a.bins_size[j] <= a.uniform_grid_cell_count[j]
                     /\ Len(a.weights) = Len(a.pts)}
    /\ module_globals \in SUBSET {"bin_coords"}
    /\ pc = "call"
    /\ NoLocals

DistributeSubproblems ==
    /\ call = "distribute_subproblems"
    /\ pc = "call"
    /\ \E tie \in Perms(Len(args.pts)) :
           Apply(distribute_subproblems(args, module_globals, tie))

InitLinearize ==
    /\ call = "compute_linearized_bin_coords"
    /\ \E n \in 1..MaxAxes :
         args \in {a \in [bins_per_axis : Vectors(n, 1..MaxBinsPerAxis),
                          bins_coords : SeqsOf(Vectors(n, 0..(MaxBinsPerAxis - 1)), 1, MaxCoords)] :
                     \A i \in DOMAIN a.bins_coords : \A j \in 1..n :
                         a.bins_coords[i][j] < a.bins_per_axis[j]}
    /\ module_globals \in SUBSET {"bin_coords"}
    /\ pc = "call"
    /\ NoLocals

ComputeLinearizedBinCoords ==
    /\ call = "compute_linearized_bin_coords"
    /\ pc = "call"
    /\ Apply(Effects(compute_linearized_bin_coords(args.bins_per_axis, args.bins_coords,
                                                   module_globals), <<>>, 0, <<>>))

(***************************************************************************)
(* mapped_distance_matrix (lines 265-354).                                 *)
(***************************************************************************)
IsNone(v) == "none" \in DOMAIN v

None == [none |-> TRUE]

Array(v) == [array |-> v]

\* A variant of mapped_distance_matrix, to test that C7 depends on it: the
\* call of lines 324-331 passes non_uniform_points and weights, so that
\* distribute_subproblems runs on the caller's configuration.
mapped_distance_matrix_forwarding(a, globals, tie) ==
    LET weights == IF IsNone(a.weights)
                   THEN [i \in DOMAIN a.non_uniform_points |-> 1]
                   ELSE a.weights.array
    IN distribute_subproblems(
           [uniform_grid_cell_size |-> a.uniform_grid_cell_size,
            uniform_grid_cell_count |-> a.uniform_grid_cell_count,
            bins_size |-> a.bins_size,
            pts |-> a.non_uniform_points,
            weights |-> weights,
            pts_per_future |-> a.pts_per_future],
           globals, tie)

\* Lines 320-331.  After the default of weights, the argument list of the
\* call of distribute_subproblems is evaluated: its third argument is the free
\* name samples2 (NameError unless the module namespace binds it).  The call
\* then gives four positional arguments and the keywords pts_per_future and
\* client to a function of seven parameters, so that weights has no value:
\* TypeError.  Nothing after line 331 is ever run.
mapped_distance_matrix(a, globals, tie) ==
    IF "samples2" \notin globals
    THEN Effects(Raise("NameError"), <<>>, 0, <<>>)
    ELSE Effects(Raise("TypeError"), <<>>, 0, <<>>)

NonPositive == {-1, 0}

\* A vector with value v on every axis but ax, where it is bad (ax = 0: none).
WithDefect(n, v, ax, bad) == [j \in 1..n |-> IF j = ax THEN bad ELSE v]

\* Grid and bin geometry, with at most one non-positive entry.
Geometries(n) ==
    {[uniform_grid_cell_size |-> WithDefect(n, s, IF f = "size" THEN ax ELSE 0, bad),
      uniform_grid_cell_count |-> WithDefect(n, c, IF f = "count" THEN ax ELSE 0, bad),
      bins_size |-> WithDefect(n, b, IF f = "bins" THEN ax ELSE 0, bad)] :
        s \in 1..MaxCellSize, c \in 1..MaxCells, b \in 1..MaxCells,
        f \in {"none", "size", "count", "bins"}, ax \in 1..n, bad \in NonPositive}

\* m points of dimension d: point i has coordinate i - 1 on every axis.
PointsOnDiagonal(m, d) == [i \in 1..m |-> [j \in 1..d |-> i - 1]]

InitMappedDistanceMatrix ==
    /\ call = "mapped_distance_matrix"
    /\ \E n \in 1..MaxDim :
         args \in {[uniform_grid_cell_size |-> g.uniform_grid_cell_size,
                    uniform_grid_cell_count |-> g.uniform_grid_cell_count,
                    bins_size |-> g.bins_size,
                    non_uniform_points |-> PointsOnDiagonal(m, d),
                    weights |-> w,
                    pts_per_future |-> k] :
                      g \in Geometries(n), m \in 0..MaxPts, d \in 1..MaxDim,
                      w \in {None} \cup {Array(x) : x \in SeqsOf({1}, 0, MaxPts)},
                      k \in PtsPerFuture}
    /\ module_globals \in SUBSET {"samples2", "bin_coords"}
    /\ pc = "call"
    /\ NoLocals

MappedDistanceMatrix ==
    /\ call = "mapped_distance_matrix"
    /\ pc = "call"
    /\ \E tie \in Perms(Len(args.non_uniform_points)) :
           Apply(mapped_distance_matrix(args, module_globals, tie))

SpecGroupBy == InitGroupBy /\ [][GroupBy]_vars

SpecExtract == InitExtract /\ [][ExtractSubproblems]_vars

SpecLinearize == InitLinearize /\ [][ComputeLinearizedBinCoords]_vars

SpecDistribute == InitDistribute /\ [][DistributeSubproblems]_vars

SpecMappedDistanceMatrix == InitMappedDistanceMatrix /\ [][MappedDistanceMatrix]_vars

(***************************************************************************)
(* Properties.                                                             *)
(***************************************************************************)
Returned(f) == call = f /\ pc = "returned"

Ended(f) == call = f /\ pc # "call"

\* C1: when distribute_subproblems has ended, every point index
\* 0..len(pts)-1 appears in exactly one dispatched subproblem, and once in it.
PartitionOfPoints ==
    Ended("distribute_subproblems") =>
        \A i \in 0..(Len(args.pts) - 1) :
            /\ Cardinality({k \in DOMAIN dispatched : i \in Range(dispatched[k])}) = 1
            /\ \A k \in DOMAIN dispatched : Count(dispatched[k], i) <= 1

\* C2: the bin coordinate distribute_subproblems computes for a point lies,
\* on each axis, in 0..bins_per_axis-1 with bins_per_axis = cell count //
\* cells per bin.
BinCoordsClamped ==
    Ended("distribute_subproblems") =>
        \A i \in DOMAIN bin_coords : \A j \in DOMAIN bin_coords[i] :
            /\ 0 <= bin_coords[i][j]
            /\ bin_coords[i][j] <=
                   (args.uniform_grid_cell_count[j] \div args.bins_size[j]) - 1

\* The row-major index of coordinate c: sum of c[i] times the product of the
\* bins of the axes after i.
RECURSIVE RowMajor(_, _)
RowMajor(bins, c) ==
    IF c = <<>> THEN 0
    ELSE LET front == SubSeq(c, 1, Len(c) - 1)
         IN RowMajor(SubSeq(bins, 1, Len(bins) - 1), front) * bins[Len(bins)] + c[Len(c)]

\* C3: for valid bin coordinates compute_linearized_bin_coords returns the
\* row-major index of every coordinate, so that distinct coordinates get
\* distinct indexes.
LinearizationRowMajor ==
    Ended("compute_linearized_bin_coords") =>
        /\ ret.kind = "return"
        /\ \A i \in DOMAIN args.bins_coords :
               ret.value[i][1] = RowMajor(args.bins_per_axis, args.bins_coords[i])
        /\ \A i, k \in DOMAIN args.bins_coords :
               args.bins_coords[i] # args.bins_coords[k] => ret.value[i] # ret.value[k]

\* A non-positive cell size, cell count or bin size, a weights array whose
\* length is not the number of points, or points whose dimension is not the
\* dimension of the grid.
Malformed(a) ==
    \/ \E j \in DOMAIN a.uniform_grid_cell_size : a.uniform_grid_cell_size[j] <= 0
    \/ \E j \in DOMAIN a.uniform_grid_cell_count : a.uniform_grid_cell_count[j] <= 0
    \/ \E j \in DOMAIN a.bins_size : a.bins_size[j] <= 0
    \/ ~IsNone(a.weights) /\ Len(a.weights.array) # Len(a.non_uniform_points)
    \/ \E i \in DOMAIN a.non_uniform_points :
           Len(a.non_uniform_points[i]) # Len(a.uniform_grid_cell_count)

\* C6: a call of mapped_distance_matrix on a well-formed configuration with
\* a finite pts_per_future ends with an output array, the one the call with
\* pts_per_future = -1 on the same arguments ends with.
UnboundedModeSameOutput ==
    (/\ Ended("mapped_distance_matrix")
     /\ ~Malformed(args)
     /\ args.non_uniform_points # <<>>
     /\ args.pts_per_future >= 1) =>
        /\ ret.kind = "return"
        /\ \A tie \in Perms(Len(args.non_uniform_points)) :
               mapped_distance_matrix([args EXCEPT !.pts_per_future = -1],
                                      module_globals, tie).ret = ret

\* C7: a call of mapped_distance_matrix with a malformed configuration makes
\* no scatter call and dispatches no subproblem, and ends in an exception.
MalformedFailsBeforeDispatch ==
    (call = "mapped_distance_matrix" /\ Malformed(args)) =>
        /\ scattered = 0
        /\ dispatched = <<>>
        /\ pc # "call" => (pc = "raised" /\ ret.kind = "raise")

MalformedCallRaised ==
    /\ call = "mapped_distance_matrix"
    /\ Malformed(args)
    /\ pc = "raised"

\* The least number of chunks of size at most k that hold len elements.
Ceil(len, k) == CHOOSE m \in 0..len : m * k >= len /\ (m = 0 \/ (m - 1) * k < len)

GroupByOneGroupPerKey ==
    Returned("group_by") =>
        LET keys == SortedSeq({args.a[i][1] : i \in DOMAIN args.a})
            groups == ret.value
        IN /\ Len(groups) = Len(keys)
           /\ \A n \in DOMAIN groups : \A v \in 0..MaxVal :
                  Count(groups[n], v) =
                      Cardinality({i \in DOMAIN args.a : args.a[i] = <<keys[n], v>>})
           /\ SumSeq([n \in DOMAIN groups |-> Len(groups[n])]) = Len(args.a)

====
